---- MODULE Spec2Model ----
(***************************************************************************)
(* Voiceprint lifecycle and matching engine of the Hybrid voice            *)
(* authentication service: the VoiceMatcher classes (voice_matcher.py,     *)
(* voice_matcher-1.py, voice_matcher-3.py), the request handlers of        *)
(* routes.py that drive them with the features of an AudioProcessor        *)
(* (audio_processor.py, audio_processor-o.py), and User.has_voiceprint of  *)
(* models.py.                                                              *)
(*                                                                         *)
(* Real numbers are fixed-point integers: the real number 1.0 is the       *)
(* integer Scale.  Files are modelled at the level of the system calls     *)
(* the code makes: open(path, 'wb') truncates (the file exists and is      *)
(* empty), pickle.dump followed by the close writes the whole record.      *)
(***************************************************************************)
EXTENDS Integers, Sequences, FiniteSets, TLC

VARIABLES
    design,     \* which VoiceMatcher class is deployed
    extractor,  \* which AudioProcessor class the handlers use
    dir,        \* dir[u]: voiceprints/user_<u>_samples exists
    samples,    \* samples[u][i]: the file sample_<i>.pkl of user u
    vp,         \* vp[u]: the file voiceprints/user_<u>_voiceprint.pkl
    enrolled,   \* enrolled[u]: the column User.is_voice_enrolled
    procs       \* procs[p]: the request handler (or method call) number p

vars == <<design, extractor, dir, samples, vp, enrolled, procs>>

----------------------------------------------------------------------------
(* Bounds of the model *)

\* sample files sample_1.pkl .. sample_<MaxIndex>.pkl
MaxIndex == 3

\* fixed-point resolution: the real number x is the integer x * Scale
Scale == 10 * 10

Users == {"u1", "u2"}
Indices == 1..MaxIndex
Designs == {"ensemble", "alignment", "embedding"}

\* the classes with a method extract_mfcc_features: audio_processor.py and
\* audio_processor-o.py
Extractors == {"audio_processor", "audio_processor-o"}

\* the utterances a user records
Utterances == {1, 2}

----------------------------------------------------------------------------
(* Program constants *)

\* self.min_samples = 3; the literal 3 in routes.py and in the other classes
min_samples == 3

\* alpha = 40.0 of the alignment scorer
alpha == 40

\* self.threshold
threshold(d) == IF d = "alignment" THEN Scale \div 10 ELSE (75 * Scale) \div 100

\* weights = [0.3, 0.2, 0.3, 0.2], in tenths
weights == <<3, 2, 3, 2>>

----------------------------------------------------------------------------
(* Arithmetic *)

Abs(x) == IF x < 0 THEN -x ELSE x

Max(a, b) == IF a >= b THEN a ELSE b

Min(a, b) == IF a <= b THEN a ELSE b

\* division rounding towards zero
Div(a, b) == IF a >= 0 THEN a \div b ELSE -((-a) \div b)

RECURSIVE Isqrt(_)
Isqrt(n) ==
    IF n < 2 THEN n
    ELSE LET s == 2 * Isqrt(n \div 4)
             l == s + 1
         IN  IF l * l > n THEN s ELSE l

RECURSIVE SumSeq(_)
SumSeq(s) == IF s = <<>> THEN 0 ELSE Head(s) + SumSeq(Tail(s))

Dot(a, b) == SumSeq([k \in 1..Len(a) |-> a[k] * b[k]])

\* the values of s in ascending order
RECURSIVE SortAsc(_)
SortAsc(s) ==
    IF Len(s) <= 1 THEN s
    ELSE LET m == CHOOSE k \in 1..Len(s) : \A j \in 1..Len(s) : s[k] <= s[j]
             rest == [j \in 1..(Len(s) - 1) |-> IF j < m THEN s[j] ELSE s[j + 1]]
         IN  <<s[m]>> \o SortAsc(rest)

\* np.mean of a sequence of numbers
Mean(s) == Div(SumSeq(s), Len(s))

\* np.std: the population standard deviation
Std(s) ==
    LET m == Mean(s)
    IN  Isqrt(Div(SumSeq([k \in 1..Len(s) |-> (s[k] - m) * (s[k] - m)]), Len(s)))

\* a variant that takes the middle of the values as they are listed
MedianAsListed(s) ==
    LET n == Len(s)
    IN  IF n % 2 = 1 THEN s[(n + 1) \div 2]
        ELSE Div(s[n \div 2] + s[n \div 2 + 1], 2)

\* np.median
Median(s) ==
    LET t == SortAsc(s)
        n == Len(s)
    IN  IF n % 2 = 1 THEN t[(n + 1) \div 2]
        ELSE Div(t[n \div 2] + t[n \div 2 + 1], 2)

\* column k of a sequence of equally long vectors
Column(rows, k) == [j \in 1..Len(rows) |-> rows[j][k]]

\* sklearn's cosine_similarity of two vectors: a row of norm 0 is left as
\* it is by the normalisation, so its similarity to anything is 0
cosine_similarity(a, b) ==
    LET sa == Dot(a, a)
        sb == Dot(b, b)
    IN  IF sa = 0 \/ sb = 0 THEN 0
        ELSE Div(Dot(a, b) * Scale, Isqrt(sa * sb))

----------------------------------------------------------------------------
(* Feature data.  A feature is what the extractor hands over: a numpy      *)
(* array with its shape (a vector, or a matrix given by its rows), or the  *)
(* dict {"matrix": .., "stats": ..} that audio_processor.py returns.       *)

Vec(x) == [kind |-> "vec", data |-> x]

Mat(rows) == [kind |-> "mat", data |-> rows]

DictFeature == [kind |-> "dict", data |-> <<>>]

NoFeature == [kind |-> "none", data |-> <<>>]

IsArray(f) == f.kind \in {"vec", "mat"}

\* ndarray.shape
Shape(f) ==
    IF f.kind = "vec" THEN <<Len(f.data)>>
    ELSE IF f.kind = "mat" THEN <<Len(f.data), Len(f.data[1])>>
    ELSE <<>>

RECURSIVE Concat(_)
Concat(rows) == IF rows = <<>> THEN <<>> ELSE Head(rows) \o Concat(Tail(rows))

\* ndarray.reshape(1, -1): the entries in row-major order
Flatten(f) == IF f.kind = "vec" THEN f.data ELSE Concat(f.data)

Transpose(rows) ==
    [c \in 1..Len(rows[1]) |-> [r \in 1..Len(rows) |-> rows[r][c]]]

----------------------------------------------------------------------------
(* VoiceprintAggregator: what create_voiceprint computes from the loaded   *)
(* samples, per design.  exc = TRUE: the computation raises.               *)

NoRecord == [form |-> "none"]

Raised == [exc |-> TRUE, record |-> NoRecord]

\* voice_matcher.py: np.array(samples), then mean, std and median along axis 0
AggregateEnsemble(loaded) ==
    IF \E j \in 1..Len(loaded) :
           \/ loaded[j].kind # "vec"
           \/ Shape(loaded[j]) # Shape(loaded[1])
    THEN Raised
    ELSE LET rows == [j \in 1..Len(loaded) |-> loaded[j].data]
             D == Len(rows[1])
         IN  [exc |-> FALSE,
              record |->
                [form |-> "statistical",
                 mean_features |-> [k \in 1..D |-> Mean(Column(rows, k))],
                 std_features |-> [k \in 1..D |-> Std(Column(rows, k))],
                 median_features |-> [k \in 1..D |-> Median(Column(rows, k))],
                 sample_count |-> Len(loaded),
                 raw_samples |-> rows]]

\* voice_matcher-1.py: the list of the loaded matrices, as it is
AggregateAlignment(loaded) ==
    [exc |-> FALSE, record |-> [form |-> "matrices", raw_samples |-> loaded]]

\* voice_matcher-3.py: np.mean(embeddings, axis=0)
AggregateEmbedding(loaded) ==
    IF \E j \in 1..Len(loaded) :
           \/ loaded[j].kind # "vec"
           \/ Shape(loaded[j]) # Shape(loaded[1])
    THEN Raised
    ELSE LET rows == [j \in 1..Len(loaded) |-> loaded[j].data]
             D == Len(rows[1])
         IN  [exc |-> FALSE,
              record |->
                [form |-> "embedding",
                 embedding |-> [k \in 1..D |-> Mean(Column(rows, k))]]]

Aggregate(d, loaded) ==
    CASE d = "ensemble" -> AggregateEnsemble(loaded)
      [] d = "alignment" -> AggregateAlignment(loaded)
      [] OTHER -> AggregateEmbedding(loaded)

----------------------------------------------------------------------------
(* MatchScorer: what authenticate_voice computes from the loaded           *)
(* voiceprint and the probe, per design.  exc = TRUE: the computation      *)
(* raises (and the method's except clause takes over).                     *)

ScoreRaised == [exc |-> TRUE, score |-> 0]

Scored(x) == [exc |-> FALSE, score |-> x]

\* what stands for a quotient by (std + 1e-8) when std is 0 and the
\* difference is not: 1e8 times the difference
Huge == Scale * Scale * Scale

\* feature_diff / (std_features + 1e-8), one entry
NormalizedDiff(diff, std) ==
    IF std = 0 THEN (IF diff = 0 THEN 0 ELSE Huge)
    ELSE Div(diff * Scale, std)

\* test_features - mean_features under numpy's broadcasting: the entries of
\* the result, each paired with the column of the mean it met; <<>> when the
\* shapes do not broadcast.  A (D,) probe meets the mean entry by entry; an
\* (r, c) probe broadcasts against (D,) when c = D or c = 1.
BroadcastPairs(test, D) ==
    IF test.kind = "vec"
    THEN IF Len(test.data) = D \/ Len(test.data) = 1 \/ D = 1
         THEN LET n == Max(Len(test.data), D)
              IN  [e \in 1..n |->
                     <<test.data[IF Len(test.data) = 1 THEN 1 ELSE e],
                       IF D = 1 THEN 1 ELSE e>>]
         ELSE <<>>
    ELSE LET r == Len(test.data)
             c == Len(test.data[1])
         IN  IF c = D \/ c = 1 \/ D = 1
             THEN LET w == Max(c, D)
                  IN  [e \in 1..(r * w) |->
                         LET i == ((e - 1) \div w) + 1
                             j == ((e - 1) % w) + 1
                         IN  <<test.data[i][IF c = 1 THEN 1 ELSE j],
                               IF D = 1 THEN 1 ELSE j>>]
             ELSE <<>>

\* the running maximum of lines 128-134, which starts from 0.0
RECURSIVE BestSampleScore(_, _, _)
BestSampleScore(t, raw, best) ==
    IF raw = <<>> THEN best
    ELSE BestSampleScore(t, Tail(raw), Max(best, cosine_similarity(t, Head(raw))))

\* a variant that leaves out the division by the sum of the weights
WeightedSum(scores, w) ==
    SumSeq([k \in 1..Len(scores) |-> scores[k] * w[k]])

\* np.average(scores, weights=weights)
WeightedAverage(scores, w) ==
    Div(SumSeq([k \in 1..Len(scores) |-> scores[k] * w[k]]), SumSeq(w))

\* voice_matcher.py, lines 111-141: the list scores, for a probe that
\* reshapes to the length D of the mean and broadcasts against it
ensemble_scores(v, test) ==
    LET t == Flatten(test)
        pairs == BroadcastPairs(test, Len(v.mean_features))
        mean_similarity == cosine_similarity(t, v.mean_features)
        median_similarity == cosine_similarity(t, v.median_features)
        best_sample_score == BestSampleScore(t, v.raw_samples, 0)
        normalized_diff ==
            [e \in 1..Len(pairs) |->
               NormalizedDiff(Abs(pairs[e][1] - v.mean_features[pairs[e][2]]),
                              v.std_features[pairs[e][2]])]
        stat_score == Div(Scale * Scale, Scale + Mean(normalized_diff))
    IN  <<mean_similarity, median_similarity, best_sample_score, stat_score>>

\* voice_matcher.py, lines 110-145
ScoreEnsemble(v, test) ==
    IF v.form # "statistical" \/ ~IsArray(test) THEN ScoreRaised
    ELSE IF Len(Flatten(test)) # Len(v.mean_features) THEN ScoreRaised
    ELSE IF BroadcastPairs(test, Len(v.mean_features)) = <<>> THEN ScoreRaised
    ELSE Scored(WeightedAverage(ensemble_scores(v, test), weights))

\* voice_matcher-3.py, lines 70-73: both arguments become one-row matrices
ScoreEmbedding(v, test) ==
    IF v.form # "embedding" \/ test.kind # "vec" THEN ScoreRaised
    ELSE IF Len(test.data) # Len(v.embedding) THEN ScoreRaised
    ELSE Scored(cosine_similarity(v.embedding, test.data))

\* float('inf'), as a distance (every real distance is >= 0)
inf == -1

\* the Euclidean distance of two frames
frame_distance(a, b) ==
    Isqrt(SumSeq([k \in 1..Len(a) |-> (a[k] - b[k]) * (a[k] - b[k])]))

\* one row of the accumulated cost matrix: row i, given the row before it
\* (<<>> for the first row), built from left to right
RECURSIVE DtwRow(_, _, _, _, _)
DtwRow(A, B, i, prev, cur) ==
    IF Len(cur) = Len(B) THEN cur
    ELSE LET j == Len(cur) + 1
             c == frame_distance(A[i], B[j])
             best == IF i = 1 /\ j = 1 THEN 0
                     ELSE IF i = 1 THEN cur[j - 1]
                     ELSE IF j = 1 THEN prev[1]
                     ELSE Min(prev[j], Min(cur[j - 1], prev[j - 1]))
         IN  DtwRow(A, B, i, prev, Append(cur, c + best))

RECURSIVE DtwRows(_, _, _, _)
DtwRows(A, B, i, prev) ==
    IF i > Len(A) THEN prev
    ELSE DtwRows(A, B, i + 1, DtwRow(A, B, i, prev, <<>>))

\* librosa.sequence.dtw with its default steps: the accumulated cost of the
\* best warping path from (1, 1) to (n, m) over the frames A[1..n], B[1..m]
DtwCost(A, B) == DtwRows(A, B, 1, <<>>)[Len(B)]

\* lines 17-18 of voice_matcher-1.py: the longer axis becomes the frame axis
Orient(rows) == IF Len(rows) < Len(rows[1]) THEN Transpose(rows) ELSE rows

\* the try block of dtw_distance raises: a feature without a shape of two
\* axes (a vector, a dict), or frames of different widths
AlignmentFails(test, enrolledSample) ==
    \/ test.kind # "mat"
    \/ enrolledSample.kind # "mat"
    \/ Len(Orient(test.data)[1]) # Len(Orient(enrolledSample.data)[1])

\* a variant whose except clause answers the distance 0
dtw_distance_zero(test, enrolledSample) ==
    IF AlignmentFails(test, enrolledSample) THEN 0
    ELSE DtwCost(Orient(test.data), Orient(enrolledSample.data))

\* VoiceMatcher.dtw_distance of voice_matcher-1.py: any exception becomes
\* float('inf')
dtw_distance(test, enrolledSample) ==
    IF AlignmentFails(test, enrolledSample) THEN inf
    ELSE DtwCost(Orient(test.data), Orient(enrolledSample.data))

\* np.mean of the distances: inf as soon as one of them is
MeanDistance(ds) ==
    IF \E k \in 1..Len(ds) : ds[k] = inf THEN inf ELSE Mean(ds)

\* e^(-1), to four decimals, over Precision
Precision == Scale * Scale

RECURSIVE ExpNegSteps(_, _)
ExpNegSteps(x, q) ==
    IF q = 0 \/ x = 0 THEN x ELSE ExpNegSteps(Div(x * 3679, 10000), q - 1)

\* a variant that grows with its argument: a / (1 + a)
ExpNegRising(a) == Div(a * Scale, Scale + a)

\* np.exp(-a) for a >= 0 in fixed point: e^(-1) q times for the integer
\* part q of a, and the Taylor polynomial of degree 3 for the fractional part
ExpNeg(a) ==
    LET q == a \div Scale
        r == (a % Scale) * (Precision \div Scale)
        r2 == Div(r * r, Precision)
        r3 == Div(r2 * r, Precision)
        frac == Precision - r + Div(r2, 2) - Div(r3, 6)
    IN  Div(ExpNegSteps(frac, q), Precision \div Scale)

\* voice_matcher-1.py, lines 79-85
ScoreAlignment(v, test) ==
    IF v.form # "matrices" THEN ScoreRaised
    ELSE LET distances ==
                 [k \in 1..Len(v.raw_samples) |-> dtw_distance(test, v.raw_samples[k])]
             avg_dist == MeanDistance(distances)
         IN  IF avg_dist = inf THEN Scored(0)
             ELSE Scored(ExpNeg(Div(avg_dist, alpha)))

score(d, v, test) ==
    CASE d = "ensemble" -> ScoreEnsemble(v, test)
      [] d = "alignment" -> ScoreAlignment(v, test)
      [] OTHER -> ScoreEmbedding(v, test)

----------------------------------------------------------------------------
(* Files.  A file is absent, partial (opened for writing and truncated,    *)
(* the record not yet written: pickle.load of it raises) or complete.      *)

NoSample == [st |-> "absent", data |-> NoFeature]

PartialSample == [st |-> "partial", data |-> NoFeature]

StoredSample(f) == [st |-> "complete", data |-> f]

NoVoiceprint == [st |-> "absent", data |-> NoRecord]

PartialVoiceprint == [st |-> "partial", data |-> NoRecord]

\* a variant that closes the file without having written the record
StoredVoiceprintTruncated(r) == [st |-> "partial", data |-> NoRecord]

StoredVoiceprint(r) == [st |-> "complete", data |-> r]

\* os.listdir of the samples directory: the sample files present
Listing(W, u) == {i \in Indices : W.samples[u][i].st # "absent"}

MinOf(S) == CHOOSE i \in S : \A j \in S : i <= j

----------------------------------------------------------------------------
(* Requests.  A handler is a record: where it is (pc), what was asked      *)
(* (kind, user, idx, feat), its local variables, and its answer (ret).     *)

MethodKinds == {"save_voice_sample", "get_sample_count", "create_voiceprint",
                "authenticate_voice", "clear_user_voiceprint"}

RouteKinds == {"upload_voice_sample", "re_enroll"}

NoRet == [ok |-> FALSE, val |-> 0, exc |-> FALSE, enr |-> FALSE]

IdleProc ==
    [pc |-> "idle", kind |-> "none", user |-> "u1", idx |-> 0,
     feat |-> NoFeature, todo |-> {}, loaded |-> <<>>, total |-> 0,
     linked |-> FALSE, saw |-> FALSE, obs |-> "none",
     saved |-> FALSE, success |-> FALSE, ret |-> NoRet]

\* the first step of each kind of request
FirstPc(kind) ==
    CASE kind \in {"save_voice_sample", "upload_voice_sample"} -> "save_makedirs"
      [] kind = "get_sample_count" -> "count_exists"
      [] kind = "create_voiceprint" -> "create_exists"
      [] kind = "authenticate_voice" -> "auth_exists"
      [] OTHER -> "clear_vp_exists"

Request(kind, u, i, f) ==
    [IdleProc EXCEPT !.pc = FirstPc(kind), !.kind = kind, !.user = u,
                     !.idx = i, !.feat = f]

\* the handler returns r: its listing, its loaded samples and its file
\* handle are gone
Done(L, r) == [L EXCEPT !.pc = "done", !.ret = r, !.todo = {},
                        !.loaded = <<>>, !.linked = FALSE]

Busy(L) == L.pc \notin {"idle", "done"}

----------------------------------------------------------------------------
(* The steps of the handlers.  W is the world: the files, the database     *)
(* column and the handlers; d the deployed design; p the handler taking    *)
(* the step; flt = TRUE: the system call of this step fails (OSError).     *)
(* Every step makes at most one system call.                               *)

SetProc(W, p, L) == [W EXCEPT !.procs[p] = L]

\* a variant that names the files of every user alike
PathKeyShared(user_id) == "u1"

\* f"voiceprints/user_{user_id}_samples", "..._voiceprint.pkl": the files
\* of a user are named by the user's id
PathKey(user_id) == user_id

\* a file of user u was unlinked: the handlers holding it open for writing
\* keep writing to an inode that no directory names any more
Unlink(W, u, pcOpen, i) ==
    [W EXCEPT !.procs =
        [q \in DOMAIN W.procs |->
            IF /\ PathKey(W.procs[q].user) = u
               /\ W.procs[q].pc = pcOpen
               /\ (pcOpen = "save_dump" => W.procs[q].idx = i)
            THEN [W.procs[q] EXCEPT !.linked = FALSE]
            ELSE W.procs[q]]]

\* a variant that names every sample file alike
SampleSlotFixed(sample_number) == IF sample_number > 1 THEN 1 ELSE sample_number

\* sample_path: the sample file is named by the sample number
SampleSlot(sample_number) == sample_number

\* what the caller of save_voice_sample does with its return value b
SaveReturn(W, p, b) ==
    LET L == W.procs[p]
    IN  IF L.kind = "save_voice_sample"
        THEN SetProc(W, p, Done(L, [NoRet EXCEPT !.ok = b]))
        ELSE SetProc(W, p, [L EXCEPT !.saved = b, !.pc = "count_exists"])

\* VoiceMatcher.save_voice_sample
save_voice_sample(W, p, flt) ==
    LET L == W.procs[p]
        u == PathKey(L.user)
        i == SampleSlot(L.idx)
    IN  CASE L.pc = "save_makedirs" ->
               IF flt THEN SaveReturn(W, p, FALSE)
               ELSE SetProc([W EXCEPT !.dir[u] = TRUE], p,
                            [L EXCEPT !.pc = "save_open"])
          [] L.pc = "save_open" ->
               IF flt \/ ~W.dir[u] THEN SaveReturn(W, p, FALSE)
               ELSE SetProc([W EXCEPT !.samples[u][i] = PartialSample], p,
                            [L EXCEPT !.pc = "save_dump", !.linked = TRUE])
          [] OTHER ->  \* save_dump
               IF flt THEN SaveReturn(W, p, FALSE)
               ELSE SaveReturn(
                        IF L.linked
                        THEN [W EXCEPT !.samples[u][i] = StoredSample(L.feat)]
                        ELSE W,
                        p, TRUE)

\* the upload handler's test "total_samples >= 3"
ReadyToCreate(total_samples) == total_samples >= 3

\* a variant that creates the samples directory where it finds none
CountReturnMakingDir(W, p, n) ==
    LET L == W.procs[p]
        W2 == [W EXCEPT !.dir[L.user] = TRUE]
    IN  IF L.kind = "get_sample_count"
        THEN SetProc(W2, p, Done(L, [NoRet EXCEPT !.ok = TRUE, !.val = n]))
        ELSE IF ReadyToCreate(n)
        THEN SetProc(W2, p, [L EXCEPT !.total = n, !.pc = "create_exists"])
        ELSE SetProc(W2, p, Done([L EXCEPT !.total = n],
                                 [NoRet EXCEPT !.ok = TRUE, !.val = n]))

\* what the caller of get_sample_count does with the count n
CountReturn(W, p, n) ==
    LET L == W.procs[p]
    IN  IF L.kind = "get_sample_count"
        THEN SetProc(W, p, Done(L, [NoRet EXCEPT !.ok = TRUE, !.val = n]))
        ELSE IF ReadyToCreate(n)
        THEN SetProc(W, p, [L EXCEPT !.total = n, !.pc = "create_exists"])
        ELSE SetProc(W, p, Done([L EXCEPT !.total = n],
                                [NoRet EXCEPT !.ok = TRUE, !.val = n]))

\* get_sample_count has no except clause: os.listdir of a directory that is
\* gone raises to the caller; the upload handler answers success: False
CountRaise(W, p) ==
    LET L == W.procs[p]
    IN  IF L.kind = "get_sample_count"
        THEN SetProc(W, p, Done(L, [NoRet EXCEPT !.exc = TRUE]))
        ELSE SetProc(W, p, Done(L, NoRet))

\* VoiceMatcher.get_sample_count
get_sample_count(W, p, flt) ==
    LET L == W.procs[p]
        u == PathKey(L.user)
    IN  CASE L.pc = "count_exists" ->
               IF ~W.dir[u] THEN CountReturn(W, p, 0)
               ELSE SetProc(W, p, [L EXCEPT !.pc = "count_listdir"])
          [] OTHER ->  \* count_listdir
               IF flt \/ ~W.dir[u] THEN CountRaise(W, p)
               ELSE CountReturn(W, p, Cardinality(Listing(W, u)))

\* a variant that removes the staged samples once the voiceprint is stored
CreateReturnClearing(W, p, b) ==
    LET L == W.procs[p]
        W2 == IF b THEN [W EXCEPT !.samples[L.user] = [i \in Indices |-> NoSample]]
              ELSE W
    IN  IF L.kind = "create_voiceprint"
        THEN SetProc(W2, p, Done(L, [NoRet EXCEPT !.ok = b]))
        ELSE IF b
        THEN SetProc(W2, p, [L EXCEPT !.success = TRUE, !.pc = "commit"])
        ELSE SetProc(W2, p, Done(L, [NoRet EXCEPT !.ok = TRUE, !.val = L.total]))

\* what the caller of create_voiceprint does with its return value b
CreateReturn(W, p, b) ==
    LET L == W.procs[p]
    IN  IF L.kind = "create_voiceprint"
        THEN SetProc(W, p, Done(L, [NoRet EXCEPT !.ok = b]))
        ELSE IF b
        THEN SetProc(W, p, [L EXCEPT !.success = TRUE, !.pc = "commit"])
        ELSE SetProc(W, p, Done(L, [NoRet EXCEPT !.ok = TRUE, !.val = L.total]))

\* a variant that is content with one sample less
EnoughSamplesOffByOne(n) == n >= min_samples - 1

\* the negation of "len(samples) < self.min_samples"
EnoughSamples(n) == n >= min_samples

\* a variant that is content with any sample at all
AfterLoadingAny(d, W, p) ==
    LET L == W.procs[p]
    IN  IF L.loaded = <<>> THEN CreateReturn(W, p, FALSE)
        ELSE IF Aggregate(d, L.loaded).exc THEN CreateReturn(W, p, FALSE)
        ELSE SetProc(W, p, [L EXCEPT !.pc = "create_open"])

\* after the last sample is loaded: the count check and the statistics
AfterLoading(d, W, p) ==
    LET L == W.procs[p]
    IN  IF ~EnoughSamples(Len(L.loaded)) THEN CreateReturn(W, p, FALSE)
        ELSE IF Aggregate(d, L.loaded).exc THEN CreateReturn(W, p, FALSE)
        ELSE SetProc(W, p, [L EXCEPT !.pc = "create_open"])

\* VoiceMatcher.create_voiceprint.  os.listdir names the files in an order
\* the file system chooses; here it is the order of the sample numbers.
create_voiceprint(d, W, p, flt) ==
    LET L == W.procs[p]
        u == PathKey(L.user)
    IN  CASE L.pc = "create_exists" ->
               IF ~W.dir[u] THEN CreateReturn(W, p, FALSE)
               ELSE SetProc(W, p, [L EXCEPT !.pc = "create_listdir"])
          [] L.pc = "create_listdir" ->
               IF flt \/ ~W.dir[u] THEN CreateReturn(W, p, FALSE)
               ELSE IF Listing(W, u) = {}
               THEN AfterLoading(d, SetProc(W, p, [L EXCEPT !.loaded = <<>>]), p)
               ELSE SetProc(W, p, [L EXCEPT !.todo = Listing(W, u),
                                            !.loaded = <<>>,
                                            !.pc = "create_load"])
          [] L.pc = "create_load" ->
               LET i == MinOf(L.todo)
                   file == W.samples[u][i]
               IN  IF flt \/ file.st # "complete"
                   THEN CreateReturn(SetProc(W, p, [L EXCEPT !.obs = file.st]),
                                     p, FALSE)
                   ELSE LET L2 == [L EXCEPT !.obs = "complete",
                                            !.todo = L.todo \ {i},
                                            !.loaded = Append(L.loaded, file.data)]
                        IN  IF L2.todo = {}
                            THEN AfterLoading(d, SetProc(W, p, L2), p)
                            ELSE SetProc(W, p, L2)
          [] L.pc = "create_open" ->
               IF flt THEN CreateReturn(W, p, FALSE)
               ELSE SetProc([W EXCEPT !.vp[u] = PartialVoiceprint], p,
                            [L EXCEPT !.pc = "create_dump", !.linked = TRUE])
          [] OTHER ->  \* create_dump
               IF flt THEN CreateReturn(W, p, FALSE)
               ELSE CreateReturn(
                        IF L.linked
                        THEN [W EXCEPT !.vp[u] =
                                  StoredVoiceprint(Aggregate(d, L.loaded).record)]
                        ELSE W,
                        p, TRUE)

\* a variant that raises instead of answering
NoVoiceprintRaises == [NoRet EXCEPT !.exc = TRUE]

\* lines 102-104: the answer when no voiceprint file exists
NoVoiceprintResult == [NoRet EXCEPT !.ok = FALSE, !.val = 0]

\* a variant without the except clause: the exception reaches the caller
ExceptResultRaises == [NoRet EXCEPT !.exc = TRUE]

\* lines 155-157: the answer of the except clause
ExceptResult == [NoRet EXCEPT !.ok = FALSE, !.val = 0]

\* a variant with one threshold, 0.75, shared by all the designs
is_match_shared(d, final_score) == final_score >= (75 * Scale) \div 100

\* is_match = final_score >= self.threshold
is_match(d, final_score) == final_score >= threshold(d)

\* the body of authenticate_voice after the voiceprint is loaded
Decide(d, voiceprint, test_features) ==
    LET s == score(d, voiceprint, test_features)
    IN  IF s.exc THEN ExceptResult
        ELSE [NoRet EXCEPT !.ok = is_match(d, s.score), !.val = s.score]

\* VoiceMatcher.authenticate_voice
authenticate_voice(d, W, p, flt) ==
    LET L == W.procs[p]
        u == PathKey(L.user)
    IN  CASE L.pc = "auth_exists" ->
               IF W.vp[u].st = "absent"
               THEN SetProc(W, p, Done([L EXCEPT !.saw = FALSE], NoVoiceprintResult))
               ELSE SetProc(W, p, [L EXCEPT !.saw = TRUE, !.pc = "auth_load"])
          [] OTHER ->  \* auth_load
               IF flt \/ W.vp[u].st # "complete"
               THEN SetProc(W, p, Done([L EXCEPT !.obs = W.vp[u].st], ExceptResult))
               ELSE SetProc(W, p, Done([L EXCEPT !.obs = "complete"],
                                       Decide(d, W.vp[u].data, L.feat)))

\* what the caller of clear_user_voiceprint does with its return value b
ClearReturn(W, p, b) ==
    LET L == W.procs[p]
    IN  IF L.kind = "clear_user_voiceprint"
        THEN SetProc(W, p, Done(L, [NoRet EXCEPT !.ok = b]))
        ELSE SetProc(W, p, [L EXCEPT !.success = b, !.pc = "reenroll_commit"])

\* a variant that leaves the voiceprint file where it is
ShouldRemoveNever(exists) == FALSE

\* a variant that removes without looking
ShouldRemoveAlways(exists) == TRUE

\* "if os.path.exists(voiceprint_path)": whether to remove the file
ShouldRemove(exists) == exists

\* VoiceMatcher.clear_user_voiceprint
clear_user_voiceprint(W, p, flt) ==
    LET L == W.procs[p]
        u == PathKey(L.user)
    IN  CASE L.pc = "clear_vp_exists" ->
               IF ShouldRemove(W.vp[u].st # "absent")
               THEN SetProc(W, p, [L EXCEPT !.pc = "clear_vp_remove"])
               ELSE SetProc(W, p, [L EXCEPT !.pc = "clear_dir_exists"])
          [] L.pc = "clear_vp_remove" ->
               IF flt \/ W.vp[u].st = "absent" THEN ClearReturn(W, p, FALSE)
               ELSE SetProc(Unlink([W EXCEPT !.vp[u] = NoVoiceprint], u, "create_dump", 0),
                            p, [L EXCEPT !.pc = "clear_dir_exists"])
          [] L.pc = "clear_dir_exists" ->
               IF W.dir[u]
               THEN SetProc(W, p, [L EXCEPT !.pc = "clear_listdir"])
               ELSE ClearReturn(W, p, TRUE)
          [] L.pc = "clear_listdir" ->
               IF flt \/ ~W.dir[u] THEN ClearReturn(W, p, FALSE)
               ELSE SetProc(W, p,
                        [L EXCEPT !.todo = Listing(W, u),
                                  !.pc = IF Listing(W, u) = {} THEN "clear_rmdir"
                                         ELSE "clear_remove"])
          [] L.pc = "clear_remove" ->
               LET i == MinOf(L.todo)
               IN  IF flt \/ W.samples[u][i].st = "absent"
                   THEN ClearReturn(W, p, FALSE)
                   ELSE SetProc(
                            Unlink([W EXCEPT !.samples[u][i] = NoSample],
                                   u, "save_dump", i),
                            p,
                            [L EXCEPT !.todo = L.todo \ {i},
                                      !.pc = IF L.todo = {i} THEN "clear_rmdir"
                                             ELSE "clear_remove"])
          [] OTHER ->  \* clear_rmdir
               IF flt \/ ~W.dir[u] \/ Listing(W, u) # {}
               THEN ClearReturn(W, p, FALSE)
               ELSE ClearReturn([W EXCEPT !.dir[u] = FALSE], p, TRUE)

\* upload_voice_sample, lines 130-137: the column is set and committed
upload_commit(W, p) ==
    LET L == W.procs[p]
    IN  SetProc([W EXCEPT !.enrolled[L.user] = TRUE], p,
                Done(L, [NoRet EXCEPT !.ok = TRUE, !.val = L.total, !.enr = TRUE]))

\* re_enroll, lines 232-235: the column is cleared whatever clear returned
re_enroll_commit(W, p) ==
    LET L == W.procs[p]
    IN  SetProc([W EXCEPT !.enrolled[L.user] = FALSE], p,
                Done(L, [NoRet EXCEPT !.ok = TRUE]))

\* one step of handler p
StepW(d, W, p, flt) ==
    LET pc == W.procs[p].pc
    IN  CASE pc \in {"save_makedirs", "save_open", "save_dump"} ->
               save_voice_sample(W, p, flt)
          [] pc \in {"count_exists", "count_listdir"} ->
               get_sample_count(W, p, flt)
          [] pc \in {"create_exists", "create_listdir", "create_load",
                     "create_open", "create_dump"} ->
               create_voiceprint(d, W, p, flt)
          [] pc \in {"auth_exists", "auth_load"} ->
               authenticate_voice(d, W, p, flt)
          [] pc \in {"clear_vp_exists", "clear_vp_remove", "clear_dir_exists",
                     "clear_listdir", "clear_remove", "clear_rmdir"} ->
               clear_user_voiceprint(W, p, flt)
          [] pc = "commit" -> upload_commit(W, p)
          [] pc = "reenroll_commit" -> re_enroll_commit(W, p)
          [] OTHER -> W

\* handler p run from where it is to its answer, with no other handler
\* taking a step in between and no failing system call
RECURSIVE RunW(_, _, _)
RunW(d, W, p) ==
    IF ~Busy(W.procs[p]) THEN W ELSE RunW(d, StepW(d, W, p, FALSE), p)

----------------------------------------------------------------------------
(* Inputs *)

Procs == {1, 2}

\* the features the extractor of a deployment hands over for staging: for
\* the alignment design matrices of one coefficient and two frames
\* (coefficients x frames, as the extractor lays them out)
StageFeatures(d) ==
    IF d = "alignment"
    THEN {Mat(<<<<0, 0>>>>), Mat(<<<<60 * Scale, 60 * Scale>>>>)}
    ELSE {Vec(<<Scale, 0>>), Vec(<<0, Scale>>)}

\* the probes: features of the deployment's shape, and features of another
\* shape (a vector of another length, a one-row matrix, a vector where a
\* matrix is due, a matrix of wider frames)
Probes(d) ==
    IF d = "alignment"
    THEN StageFeatures(d) \cup
         {Mat(<<<<20 * Scale, 20 * Scale>>>>),
          Vec(<<Scale, 0>>),
          Mat(<<<<0, 0, 0>>, <<0, 0, 0>>>>)}
    ELSE StageFeatures(d) \cup
         {Vec(<<-Scale, 0>>), Vec(<<Scale, 0, 0>>), Mat(<<<<Scale, 0>>>>)}

\* AudioProcessor.extract_mfcc_features of an utterance: audio_processor.py
\* returns the dict {"matrix": mfccs, "stats": combined_features},
\* audio_processor-o.py the vector of statistics
extract_mfcc_features(e, utterance) ==
    IF e = "audio_processor" THEN DictFeature
    ELSE IF utterance = 1 THEN Vec(<<Scale, 0>>) ELSE Vec(<<0, Scale>>)

----------------------------------------------------------------------------
(* The state machine *)

World == [dir |-> dir, samples |-> samples, vp |-> vp,
          enrolled |-> enrolled, procs |-> procs]

Becomes(W) ==
    /\ dir' = W.dir
    /\ samples' = W.samples
    /\ vp' = W.vp
    /\ enrolled' = W.enrolled
    /\ procs' = W.procs
    /\ UNCHANGED <<design, extractor>>

Quiet == \A p \in Procs : ~Busy(procs[p])

InitFiles ==
    /\ dir = [u \in Users |-> FALSE]
    /\ samples = [u \in Users |-> [i \in Indices |-> NoSample]]
    /\ vp = [u \in Users |-> NoVoiceprint]
    /\ enrolled = [u \in Users |-> FALSE]
    /\ procs = [p \in Procs |-> IdleProc]

\* the methods are called with features directly: no extractor takes part
Init == design \in Designs /\ extractor = "none" /\ InitFiles

\* one call of a method, or one request, run to its answer while nothing
\* else runs
Call(kind, u, i, f) ==
    /\ Quiet
    /\ Becomes(RunW(design, SetProc(World, 1, Request(kind, u, i, f)), 1))

CallSave ==
    \E i \in Indices, f \in StageFeatures(design) :
        Call("save_voice_sample", "u1", i, f)

CallCount == Call("get_sample_count", "u1", 0, NoFeature)

CallCreate == Call("create_voiceprint", "u1", 0, NoFeature)

CallAuthenticate ==
    \E f \in Probes(design) : Call("authenticate_voice", "u1", 0, f)

CallClear == Call("clear_user_voiceprint", "u1", 0, NoFeature)

\* the methods of VoiceMatcher, called one after the other in any order
Next == CallSave \/ CallCount \/ CallCreate \/ CallAuthenticate \/ CallClear

Spec == Init /\ [][Next]_vars

----------------------------------------------------------------------------
(* The deployment of routes.py: voice_matcher.py behind the request        *)
(* handlers, which the server runs concurrently, one per request.          *)

\* routes.py imports VoiceMatcher from voice_matcher
InitRoutes == design = "ensemble" /\ extractor \in Extractors /\ InitFiles

\* the sample numbers the enrolment page sends: 1, 2, 3
PageIndices == 1..min_samples

\* a request arrives at a free handler and takes its first step; the
\* handlers are interchangeable, so the second one is taken only while the
\* first is busy
Arrive(p, kind, u, i, f) ==
    /\ ~Busy(procs[p])
    /\ \A q \in Procs : q < p => Busy(procs[q])
    /\ Becomes(StepW(design, SetProc(World, p, Request(kind, u, i, f)), p, FALSE))

\* POST /upload_voice_sample: capture 1 may be redone with another
\* utterance, captures 2 and 3 are of the first one
Upload(p) ==
    \E i \in PageIndices, a \in Utterances :
        /\ (i > 1 => a = 1)
        /\ Arrive(p, "upload_voice_sample", "u1", i,
                  extract_mfcc_features(extractor, a))

\* POST /authenticate_voice
Authenticate(p) ==
    \E a \in Utterances :
        Arrive(p, "authenticate_voice", "u1", 0,
               extract_mfcc_features(extractor, a))

\* GET /re_enroll
ReEnroll(p) == Arrive(p, "re_enroll", "u1", 0, NoFeature)

\* a handler in progress takes its next step
Step(p) ==
    /\ Busy(procs[p])
    /\ Becomes(StepW(design, World, p, FALSE))

NextConc == \E p \in Procs : Upload(p) \/ Authenticate(p) \/ ReEnroll(p) \/ Step(p)

SpecConc == InitRoutes /\ [][NextConc]_vars

\* the same requests, one after the other: each is answered before the
\* next arrives
RouteUpload ==
    \E i \in Indices, a \in Utterances :
        Call("upload_voice_sample", "u1", i, extract_mfcc_features(extractor, a))

RouteAuthenticate ==
    \E a \in Utterances :
        Call("authenticate_voice", "u1", 0, extract_mfcc_features(extractor, a))

RouteReEnroll == Call("re_enroll", "u1", 0, NoFeature)

NextRoutes == RouteUpload \/ RouteAuthenticate \/ RouteReEnroll

SpecRoutes == InitRoutes /\ [][NextRoutes]_vars

----------------------------------------------------------------------------
(* Storage faults: a system call of a handler may fail (OSError: disk      *)
(* full, permission, input/output error).                                  *)

\* the number of steps a request of a kind takes at most
StepsOf(kind) ==
    CASE kind = "save_voice_sample" -> 3
      [] kind = "get_sample_count" -> 2
      [] kind = "create_voiceprint" -> MaxIndex + 4
      [] kind = "authenticate_voice" -> 2
      [] kind = "clear_user_voiceprint" -> MaxIndex + 5
      [] kind = "upload_voice_sample" -> MaxIndex + 10
      [] OTHER -> MaxIndex + 6

\* the steps of a request, counted from 1, at which its system call may
\* fail; 0: none fails
FaultPoints(kind) == 0..StepsOf(kind)

\* handler p run to its answer, the system call of its k-th step failing
RECURSIVE RunFault(_, _, _, _)
RunFault(d, W, p, k) ==
    IF ~Busy(W.procs[p]) THEN W
    ELSE RunFault(d, StepW(d, W, p, k = 1), p, IF k > 0 THEN k - 1 ELSE 0)

CallFault(kind, u, i, f, k) ==
    /\ Quiet
    /\ Becomes(RunFault(design, SetProc(World, 1, Request(kind, u, i, f)), 1, k))

FaultySave ==
    \E i \in Indices, f \in StageFeatures(design), k \in FaultPoints("save_voice_sample") :
        CallFault("save_voice_sample", "u1", i, f, k)

FaultyCount ==
    \E k \in FaultPoints("get_sample_count") : CallFault("get_sample_count", "u1", 0, NoFeature, k)

FaultyCreate ==
    \E k \in FaultPoints("create_voiceprint") : CallFault("create_voiceprint", "u1", 0, NoFeature, k)

FaultyAuthenticate ==
    \E f \in StageFeatures(design), k \in FaultPoints("authenticate_voice") :
        CallFault("authenticate_voice", "u1", 0, f, k)

FaultyClear ==
    \E k \in FaultPoints("clear_user_voiceprint") :
        CallFault("clear_user_voiceprint", "u1", 0, NoFeature, k)

\* the methods of VoiceMatcher, called one after the other, on a file system
\* that may fail
NextFault ==
    FaultySave \/ FaultyCount \/ FaultyCreate \/ FaultyAuthenticate \/ FaultyClear

SpecFault == Init /\ [][NextFault]_vars

\* the request handlers, one request after the other, on a file system that
\* may fail
FaultyUpload ==
    \E i \in PageIndices, a \in Utterances, k \in FaultPoints("upload_voice_sample") :
        CallFault("upload_voice_sample", "u1", i,
                  extract_mfcc_features(extractor, a), k)

FaultyRouteAuthenticate ==
    \E a \in Utterances, k \in FaultPoints("authenticate_voice") :
        CallFault("authenticate_voice", "u1", 0,
                  extract_mfcc_features(extractor, a), k)

FaultyReEnroll ==
    \E k \in FaultPoints("re_enroll") : CallFault("re_enroll", "u1", 0, NoFeature, k)

NextRoutesFault == FaultyUpload \/ FaultyRouteAuthenticate \/ FaultyReEnroll

SpecRoutesFault == InitRoutes /\ [][NextRoutesFault]_vars

----------------------------------------------------------------------------
(* Two users at once: handler 1 serves the calls for u1, handler 2 those   *)
(* for u2, step by step in any interleaving.                               *)

UserOf(p) == IF p = 1 THEN "u1" ELSE "u2"

\* what a user stages and probes with: each user has a voice of their own
VoiceOf(d, u) ==
    IF d = "alignment"
    THEN (IF u = "u1" THEN Mat(<<<<0, 0>>>>) ELSE Mat(<<<<60 * Scale, 60 * Scale>>>>))
    ELSE (IF u = "u1" THEN Vec(<<Scale, 0>>) ELSE Vec(<<0, Scale>>))

\* a method is called for the user of handler p and takes its first step
UserCall(p) ==
    \E kind \in MethodKinds, i \in PageIndices :
        /\ ~Busy(procs[p])
        /\ (kind # "save_voice_sample" => i = 1)
        /\ Becomes(StepW(design,
                         SetProc(World, p,
                                 Request(kind, UserOf(p),
                                         IF kind = "save_voice_sample" THEN i ELSE 0,
                                         IF kind \in {"save_voice_sample",
                                                      "authenticate_voice"}
                                         THEN VoiceOf(design, UserOf(p))
                                         ELSE NoFeature)),
                         p, FALSE))

NextUsers == \E p \in Procs : UserCall(p) \/ Step(p)

SpecUsers == Init /\ [][NextUsers]_vars

----------------------------------------------------------------------------
(* The ensemble design on feature vectors of three entries: the methods of *)
(* voice_matcher.py called one after the other for one user.               *)

InitEnsemble == design = "ensemble" /\ extractor = "none" /\ InitFiles

\* [1, 0, 0] and [0, 1, 0]
Enrolment == {Vec(<<Scale, 0, 0>>), Vec(<<0, Scale, 0>>)}

\* the enrolment vectors and [-1, 0, 0]
Attempts == Enrolment \cup {Vec(<<-Scale, 0, 0>>)}

EnsembleSave ==
    \E i \in Indices, f \in Enrolment : Call("save_voice_sample", "u1", i, f)

EnsembleAuthenticate ==
    \E f \in Attempts : Call("authenticate_voice", "u1", 0, f)

NextEnsemble ==
    EnsembleSave \/ CallCount \/ CallCreate \/ EnsembleAuthenticate \/ CallClear

SpecEnsemble == InitEnsemble /\ [][NextEnsemble]_vars

----------------------------------------------------------------------------
(* The alignment design, voice_matcher-1.py, on matrices at several        *)
(* distances from each other and of two frame widths: its methods called   *)
(* one after the other for one user.                                       *)

InitAlignment == design = "alignment" /\ extractor = "none" /\ InitFiles

\* a matrix of two frames, both of the value x
Flat(x) == Mat(<<<<x * Scale, x * Scale>>>>)

\* a matrix whose frames are wider
Wide == Mat(<<<<0, 0, 0>>, <<0, 0, 0>>>>)

Recordings == {Flat(0), Flat(60), Wide}

Trials == Recordings \cup {Flat(10), Flat(20), Flat(80), Vec(<<Scale, 0>>)}

\* the recordings are staged under the sample numbers of the enrolment
AlignmentSave ==
    \E i \in PageIndices, f \in Recordings :
        Call("save_voice_sample", "u1", i, f)

AlignmentAuthenticate ==
    \E f \in Trials : Call("authenticate_voice", "u1", 0, f)

NextAlignment ==
    AlignmentSave \/ CallCount \/ CallCreate \/ AlignmentAuthenticate \/ CallClear

SpecAlignment == InitAlignment /\ [][NextAlignment]_vars

----------------------------------------------------------------------------
(* Uploads only: the upload requests of one user, run concurrently, those  *)
(* in flight together carrying different sample numbers.                   *)

UploadDistinct(p) ==
    \E i \in Indices, a \in Utterances :
        /\ \A q \in Procs : Busy(procs[q]) => procs[q].idx # i
        /\ Arrive(p, "upload_voice_sample", "u1", i,
                  extract_mfcc_features(extractor, a))

NextUploads == \E p \in Procs : UploadDistinct(p) \/ Step(p)

SpecUploads == InitRoutes /\ [][NextUploads]_vars

----------------------------------------------------------------------------
(* Properties *)

Answered(p, kind) == procs[p].kind = kind /\ procs[p].pc = "done"

Rejection == [ok |-> FALSE, val |-> 0, exc |-> FALSE, enr |-> FALSE]

\* what get_sample_count(u) answers in the world W
SampleCount(W, u) ==
    RunW(design,
         SetProc(W, 1, Request("get_sample_count", u, 0, NoFeature)),
         1).procs[1].ret.val

WorldAfter == [dir |-> dir', samples |-> samples', vp |-> vp',
               enrolled |-> enrolled', procs |-> procs']

(* C1: authenticate_voice for a user with no stored voiceprint record     *)
(* answers exactly (False, 0.0), for every probe and in every design, and *)
(* does not raise.                                                        *)
C1_NoVoiceprintRejected ==
    \A p \in Procs :
        (Answered(p, "authenticate_voice") /\ vp[procs[p].user].st = "absent")
            => procs[p].ret = Rejection

C1_Witness ==
    /\ Answered(1, "authenticate_voice")
    /\ vp["u1"].st = "absent"
    /\ dir["u1"]
    /\ procs[1].feat.kind = "mat"

\* the probe's shape is not the shape the stored reference was built from
ShapeDisagrees(d, v, f) ==
    CASE d = "ensemble" -> Shape(f) # <<Len(v.mean_features)>>
      [] d = "embedding" -> Shape(f) # <<Len(v.embedding)>>
      [] OTHER -> \/ f.kind # "mat"
                  \/ Len(Orient(f.data)[1]) # Len(Orient(v.raw_samples[1].data)[1])

(* C2: authentication fails closed: when the stored voiceprint record is  *)
(* unreadable, or the probe's shape disagrees with the stored reference,  *)
(* authenticate_voice answers (False, 0.0) without raising; stated here   *)
(* by its last clause: no such path answers is_match = True.              *)
C2_FailsClosed ==
    \A p \in Procs :
        (/\ Answered(p, "authenticate_voice")
         /\ \/ vp[procs[p].user].st = "partial"
            \/ /\ vp[procs[p].user].st = "complete"
               /\ ShapeDisagrees(design, vp[procs[p].user].data, procs[p].feat))
            => (~procs[p].ret.ok /\ ~procs[p].ret.exc)

(* C3: create_voiceprint called while fewer than min_samples samples are  *)
(* staged answers False and leaves the voiceprint file as it was.         *)
C3_InsufficientSamples ==
    [][(/\ procs'[1].kind = "create_voiceprint"
        /\ SampleCount(World, "u1") < min_samples)
           => (~procs'[1].ret.ok /\ vp' = vp)]_vars

C3_Witness ==
    /\ Answered(1, "create_voiceprint")
    /\ ~procs[1].ret.ok
    /\ Cardinality(Listing(World, "u1")) = min_samples - 1
    /\ vp["u1"].st = "absent"

(* C4: in every answer (is_match, confidence) of authenticate_voice, on   *)
(* every return path and in every design, is_match holds exactly when     *)
(* confidence >= the threshold of the deployed design.                    *)
C4_DecisionRule ==
    \A p \in Procs :
        Answered(p, "authenticate_voice")
            => (procs[p].ret.ok <=> procs[p].ret.val >= threshold(design))

C4_Witness ==
    /\ design = "alignment"
    /\ Answered(1, "authenticate_voice")
    /\ procs[1].ret.ok
    /\ procs[1].ret.val < threshold("ensemble")

(* C5: once a voiceprint record exists for a user, its contents do not    *)
(* change under any sequence of staging, create_voiceprint and            *)
(* authenticate_voice calls (an upload is a staging followed by a         *)
(* create); only re-enrollment, which deletes the record by               *)
(* clear_user_voiceprint, leads to a record of other contents.            *)
C5_Immutable ==
    [][(vp["u1"].st = "complete" /\ procs'[1].kind # "clear_user_voiceprint")
           => vp'["u1"] = vp["u1"]]_vars

\* User.has_voiceprint
has_voiceprint(u) == enrolled[u] /\ vp[u].st # "absent"

(* C6: between requests, the answer to "is this user enrolled"            *)
(* (User.has_voiceprint, is_voice_enrolled) equals "the voiceprint record *)
(* exists".                                                               *)
C6_EnrollmentDerivable ==
    Quiet => \A u \in Users :
                /\ has_voiceprint(u) <=> vp[u].st # "absent"
                /\ enrolled[u] <=> vp[u].st # "absent"

(* C7: a voiceprint record that exists keeps existing across every save,  *)
(* count, create and authenticate call and stops existing only by         *)
(* clear_user_voiceprint; a clear that returns True, nothing else in      *)
(* flight, leaves no staged sample, no staging directory and no           *)
(* voiceprint.                                                            *)
C7_OnlyClearRemoves ==
    [][/\ (vp["u1"].st # "absent" /\ procs'[1].kind # "clear_user_voiceprint")
              => vp'["u1"].st # "absent"
       /\ (procs'[1].kind = "clear_user_voiceprint" /\ procs'[1].ret.ok)
              => /\ vp'["u1"] = NoVoiceprint
                 /\ \A i \in Indices : samples'["u1"][i] = NoSample
                 /\ ~dir'["u1"]
                 /\ SampleCount(WorldAfter, "u1") = 0]_vars

C7_Witness ==
    /\ Answered(1, "save_voice_sample")
    /\ procs[1].ret.ok
    /\ vp["u1"].st = "complete"

\* the files of user u
FilesOf(W, u) == <<W.dir[u], W.samples[u], W.vp[u]>>

\* a further call of clear_user_voiceprint(u) made in the world W
ClearAgain(W, u) ==
    RunW(design,
         SetProc(W, 1, Request("clear_user_voiceprint", u, 0, NoFeature)), 1)

(* C8: clear_user_voiceprint never fails: on every user, also one with   *)
(* no samples and no voiceprint, a call returns True, a second call right *)
(* after it returns True too, and the state after the second call is the  *)
(* state after the first.                                                 *)
C8_ClearIdempotent ==
    /\ Answered(1, "clear_user_voiceprint") => procs[1].ret.ok
    /\ \A u \in Users :
         LET first == ClearAgain(World, u)
             second == ClearAgain(first, u)
         IN  /\ first.procs[1].ret.ok
             /\ second.procs[1].ret.ok
             /\ FilesOf(second, u) = FilesOf(first, u)
             /\ second.enrolled = first.enrolled

C8_Witness ==
    /\ Answered(1, "clear_user_voiceprint")
    /\ procs[1].ret.ok
    /\ FilesOf(World, "u1") = FilesOf(ClearAgain(World, "u1"), "u1")
    /\ ~dir["u1"]

(* C9: a save_voice_sample(u, i, f) that returns True stores f at index   *)
(* i, leaves the samples at the other indices as they were, and raises    *)
(* get_sample_count(u) by 1 when index i was not staged, by 0 when it     *)
(* was.                                                                   *)
C9_LastWriteWins ==
    [][(procs'[1].kind = "save_voice_sample" /\ procs'[1].ret.ok)
         => /\ samples'["u1"][procs'[1].idx] = StoredSample(procs'[1].feat)
            /\ \A j \in Indices \ {procs'[1].idx} :
                   samples'["u1"][j] = samples["u1"][j]
            /\ SampleCount(WorldAfter, "u1") =
                   SampleCount(World, "u1")
                   + (IF samples["u1"][procs'[1].idx].st = "absent" THEN 1 ELSE 0)]_vars

C9_Witness ==
    /\ Answered(1, "save_voice_sample")
    /\ procs[1].ret.ok
    /\ procs[1].idx = 2
    /\ samples["u1"][2] = StoredSample(procs[1].feat)
    /\ samples["u1"][1].st = "complete"
    /\ samples["u1"][1] # samples["u1"][2]
    /\ samples["u1"][3].st = "absent"

(* C10: a reader of a sample file or of the voiceprint file (the loads of *)
(* create_voiceprint and authenticate_voice) never finds a half-written   *)
(* file, whatever writer runs at the same time.                           *)
C10_AtomicPublish ==
    \A p \in Procs : procs[p].obs # "partial"

\* a handler of a request for user u that has opened the voiceprint file
\* for writing and not yet written the record
Writing(u) == \E p \in Procs : procs[p].user = u /\ procs[p].pc = "create_dump"

\* the record r is what one run of create_voiceprint (ensemble) produces
\* from at least min_samples loaded samples: whole, and its summary that of
\* its own raw samples
WholeRecord(r) ==
    /\ r.form = "statistical"
    /\ r.sample_count = Len(r.raw_samples)
    /\ r.sample_count >= min_samples
    /\ AggregateEnsemble([j \in 1..Len(r.raw_samples) |-> Vec(r.raw_samples[j])])
           = [exc |-> FALSE, record |-> r]

Answers(p, kind) ==
    /\ procs'[p].kind = kind
    /\ procs'[p].pc = "done"
    /\ procs'[p] # procs[p]

(* C12: authenticate_voice running while re_enroll (or anything else)     *)
(* removes or rewrites the user's voiceprint: its answer is the score of  *)
(* the probe against the complete record the file held when it was        *)
(* loaded, or else (False, 0.0); it never raises.                         *)
C12_ReadOrAbsent ==
    [][\A p \in Procs :
          Answers(p, "authenticate_voice")
              => /\ ~procs'[p].ret.exc
                 /\ \/ procs'[p].ret = Rejection
                    \/ /\ vp[procs'[p].user].st = "complete"
                       /\ procs'[p].ret =
                              Decide(design, vp[procs'[p].user].data, procs'[p].feat)]_vars

\* the voiceprint was there at the os.path.exists test and gone at the open
C12_Witness ==
    \E p \in Procs :
        /\ Answered(p, "authenticate_voice")
        /\ procs[p].saw
        /\ procs[p].obs = "absent"
        /\ procs[p].ret = Rejection
        /\ \E q \in Procs : procs[q].kind = "re_enroll"

(* C13: whenever create_voiceprint returns False, whatever failed, the    *)
(* files of the user (the voiceprint stored before and the staged         *)
(* samples) are as they were before the call.                             *)
C13_NoPartialWrite ==
    [][(procs'[1].kind = "create_voiceprint" /\ ~procs'[1].ret.ok)
           => FilesOf(WorldAfter, "u1") = FilesOf(World, "u1")]_vars

(* C14: a storage fault during staging is answered as a failure: an       *)
(* upload request is answered with success only if save_voice_sample      *)
(* returned True and the complete sample is stored at its index.          *)
C14_FaultSurfaced ==
    (Answered(1, "upload_voice_sample") /\ procs[1].ret.ok)
        => /\ procs[1].saved
           /\ samples[procs[1].user][procs[1].idx] = StoredSample(procs[1].feat)

\* the call or the step handler p is taking: the handler as it is before
\* its step, the request itself when the step is the first of a call
Taken(p) ==
    IF Busy(procs[p]) THEN procs[p]
    ELSE Request(procs'[p].kind, procs'[p].user, procs'[p].idx, procs'[p].feat)

\* the world W with nothing of user u in it: no files of u, no handler
\* working for u
Without(W, u) ==
    [W EXCEPT !.dir[u] = FALSE,
              !.samples[u] = [i \in Indices |-> NoSample],
              !.vp[u] = NoVoiceprint,
              !.procs = [q \in Procs |-> IF W.procs[q].user = u
                                         THEN IdleProc ELSE W.procs[q]]]

(* C15: users are independent.  Every step of every method called for     *)
(* user A, interleaved in any way with the methods called for another     *)
(* user B, leaves the directory, the staged samples and the voiceprint of *)
(* B as they were, and does to the handler and to the files of A exactly  *)
(* what it does in a world that holds nothing of B.                       *)
C15_UsersIndependent ==
    [][\A p \in Procs :
          procs'[p] # procs[p] =>
              LET A == UserOf(p)
                  B == UserOf(3 - p)
                  alone == StepW(design,
                                 SetProc(Without(World, B), p, Taken(p)),
                                 p, FALSE)
              IN  /\ FilesOf(WorldAfter, B) = FilesOf(World, B)
                  /\ procs'[p] = alone.procs[p]
                  /\ FilesOf(WorldAfter, A) = FilesOf(alone, A)]_vars

\* both users are enrolled with different voiceprints, u1 has just been
\* accepted and a call for u2 is under way
C15_Witness ==
    /\ Answered(1, "authenticate_voice") /\ procs[1].ret.ok
    /\ vp["u1"].st = "complete" /\ vp["u2"].st = "complete"
    /\ vp["u1"].data # vp["u2"].data
    /\ Busy(procs[2]) /\ procs[2].user = "u2"

\* the staged samples of u, in the order of their indices
Staged(u) ==
    LET idx == {i \in Indices : samples[u][i].st = "complete"}
        RECURSIVE InOrder(_)
        InOrder(S) == IF S = {} THEN <<>>
                      ELSE <<samples[u][MinOf(S)].data>> \o InOrder(S \ {MinOf(S)})
    IN  InOrder(idx)

ThreeOf(f) == <<f, f, f>>

(* C16: end to end in the ensemble design.  create_voiceprint over exactly *)
(* three staged samples [1,0,0] succeeds and stores them; against that     *)
(* voiceprint authenticate_voice answers (True, 1.0) to the probe [1,0,0]  *)
(* and is_match = False, without raising, to the probe [-1,0,0].           *)
C16_EndToEnd ==
    LET e == Vec(<<Scale, 0, 0>>)
        enrolledWithE == /\ vp["u1"].st = "complete"
                         /\ vp["u1"].data.raw_samples = ThreeOf(e.data)
    IN  /\ (Answered(1, "create_voiceprint") /\ Staged("u1") = ThreeOf(e))
               => (procs[1].ret.ok /\ enrolledWithE)
        /\ (Answered(1, "authenticate_voice") /\ enrolledWithE)
               => /\ procs[1].feat = e
                       => (procs[1].ret.ok /\ procs[1].ret.val = Scale)
                  /\ procs[1].feat = Vec(<<-Scale, 0, 0>>)
                       => (~procs[1].ret.ok /\ ~procs[1].ret.exc)

\* the user enrolled with three samples [1,0,0] has just been accepted with
\* score 1.0
C16_Witness ==
    /\ Answered(1, "authenticate_voice")
    /\ Staged("u1") = ThreeOf(Vec(<<Scale, 0, 0>>))
    /\ vp["u1"].st = "complete"
    /\ vp["u1"].data.raw_samples = ThreeOf(<<Scale, 0, 0>>)
    /\ procs[1].feat = Vec(<<Scale, 0, 0>>)
    /\ procs[1].ret.ok /\ procs[1].ret.val = Scale

(* C17: self-match in the ensemble design at threshold 0.75.  Against a   *)
(* voiceprint of at least min_samples samples, authenticate_voice with a  *)
(* probe equal to one of the enrolled raw samples answers is_match = True. *)
C17_SelfMatch ==
    (/\ Answered(1, "authenticate_voice")
     /\ vp["u1"].st = "complete"
     /\ procs[1].feat.kind = "vec"
     /\ vp["u1"].data.sample_count >= min_samples
     /\ \E j \in 1..Len(vp["u1"].data.raw_samples) :
            vp["u1"].data.raw_samples[j] = procs[1].feat.data)
        => procs[1].ret.ok

\* the orders in which os.listdir may list n files
Listings(n) == {pi \in [1..n -> 1..n] : \A a, b \in 1..n : pi[a] = pi[b] => a = b}

\* the mean, median and std vectors of a voiceprint record
Summary(r) == <<r.mean_features, r.median_features, r.std_features>>

\* create_voiceprint called once more in the world W
CreateAgain(W, u) ==
    RunW(design, SetProc(W, 1, Request("create_voiceprint", u, 0, NoFeature)), 1)

(* C18: aggregation is deterministic and independent of the order.  When  *)
(* create_voiceprint has succeeded, the mean, median and std vectors it   *)
(* stored are those the aggregation gives for the staged samples listed   *)
(* in any order, and a second run over the unchanged samples succeeds and *)
(* stores the same summary.                                               *)
C18_OrderIndependent ==
    (Answered(1, "create_voiceprint") /\ procs[1].ret.ok)
        => /\ vp["u1"].st = "complete"
           /\ \A pi \in Listings(Len(Staged("u1"))) :
                  LET listed == [j \in 1..Len(Staged("u1")) |-> Staged("u1")[pi[j]]]
                      again == Aggregate(design, listed)
                  IN  ~again.exc /\ Summary(again.record) = Summary(vp["u1"].data)
           /\ LET second == CreateAgain(World, "u1")
              IN  /\ second.procs[1].ret.ok
                  /\ second.vp["u1"].st = "complete"
                  /\ Summary(second.vp["u1"].data) = Summary(vp["u1"].data)

\* a voiceprint has just been created from samples that are not all alike,
\* listed so that the middle one is not the median
C18_Witness ==
    /\ Answered(1, "create_voiceprint") /\ procs[1].ret.ok
    /\ Len(Staged("u1")) >= min_samples
    /\ Staged("u1")[1] # Staged("u1")[2]
    /\ Staged("u1")[1] = Staged("u1")[3]

(* C19: in the alignment design a failed alignment counts as an infinite  *)
(* distance.  When the alignment of the probe against one of the enrolled *)
(* samples fails, authenticate_voice does not raise and answers           *)
(* (False, 0.0): similarity 0, no match.                                  *)
C19_FailedAlignmentRejected ==
    (/\ Answered(1, "authenticate_voice")
     /\ vp["u1"].st = "complete"
     /\ \E k \in 1..Len(vp["u1"].data.raw_samples) :
            AlignmentFails(procs[1].feat, vp["u1"].data.raw_samples[k]))
        => (~procs[1].ret.exc /\ ~procs[1].ret.ok /\ procs[1].ret.val = 0)

\* a probe that aligns with one enrolled sample and not with another has
\* been rejected with similarity 0
C19_Witness ==
    /\ Answered(1, "authenticate_voice")
    /\ vp["u1"].st = "complete"
    /\ Len(vp["u1"].data.raw_samples) >= min_samples
    /\ procs[1].feat.kind = "mat"
    /\ \E k \in 1..Len(vp["u1"].data.raw_samples) :
           AlignmentFails(procs[1].feat, vp["u1"].data.raw_samples[k])
    /\ \E k \in 1..Len(vp["u1"].data.raw_samples) :
           dtw_distance(procs[1].feat, vp["u1"].data.raw_samples[k]) = 0
    /\ ~procs[1].ret.ok /\ procs[1].ret.val = 0

\* d2 is at least d1, as distances: inf is above every number
AtLeast(d2, d1) == d2 = inf \/ (d1 # inf /\ d2 >= d1)

(* C20: the alignment scorer is monotone.  Against a fixed voiceprint, a  *)
(* probe whose DTW distance to every enrolled sample is at least that of  *)
(* the probe just answered gets a similarity that is not higher, and is   *)
(* rejected if the probe just answered was.                               *)
C20_Monotone ==
    (Answered(1, "authenticate_voice") /\ vp["u1"].st = "complete")
        => \A farther \in Trials :
               (\A k \in 1..Len(vp["u1"].data.raw_samples) :
                    AtLeast(dtw_distance(farther, vp["u1"].data.raw_samples[k]),
                            dtw_distance(procs[1].feat, vp["u1"].data.raw_samples[k])))
                   => LET other == Decide(design, vp["u1"].data, farther)
                      IN  /\ ~other.exc
                          /\ other.val <= procs[1].ret.val
                          /\ ~procs[1].ret.ok => ~other.ok

\* a probe has been accepted against a voiceprint from which a probe that
\* is farther from every enrolled sample is rejected
C20_Witness ==
    /\ Answered(1, "authenticate_voice") /\ procs[1].ret.ok
    /\ vp["u1"].st = "complete"
    /\ procs[1].feat = Flat(10)
    /\ \A k \in 1..Len(vp["u1"].data.raw_samples) :
           /\ dtw_distance(Flat(80), vp["u1"].data.raw_samples[k]) # inf
           /\ dtw_distance(Flat(80), vp["u1"].data.raw_samples[k])
                  > dtw_distance(procs[1].feat, vp["u1"].data.raw_samples[k])
    /\ ~Decide(design, vp["u1"].data, Flat(80)).ok

\* the greatest cosine similarity of the probe t to a sample of raw
MaxCosine(t, raw) ==
    LET sims == {cosine_similarity(t, raw[k]) : k \in 1..Len(raw)}
    IN  CHOOSE m \in sims : \A x \in sims : m >= x

(* C21: the third signal of the ensemble is the maximum cosine similarity *)
(* of the probe to the raw enrolled samples.  Whenever authenticate_voice *)
(* has scored a probe against a stored voiceprint, the third entry of its *)
(* scores is that maximum, also when every cosine is negative.            *)
C21_BestSampleIsMax ==
    (/\ Answered(1, "authenticate_voice")
     /\ vp["u1"].st = "complete"
     /\ ~procs[1].ret.exc)
        => ensemble_scores(vp["u1"].data, procs[1].feat)[3]
               = MaxCosine(Flatten(procs[1].feat), vp["u1"].data.raw_samples)

(* C22: the upload handler aggregates as soon as the count allows it.     *)
(* After any sequence of requests answered one after the other without a  *)
(* fault, a user with get_sample_count >= 3 has a voiceprint record and   *)
(* is marked enrolled.                                                    *)
C22_ReadyIsAggregated ==
    (Quiet /\ SampleCount(World, "u1") >= 3)
        => (vp["u1"].st = "complete" /\ enrolled["u1"])

(* C23: the deployment has one feature representation end to end.  An     *)
(* upload that was extracted and staged and then counted at least         *)
(* min_samples samples holds a feature the matcher operates on, a vector, *)
(* and ends with create_voiceprint succeeded and the user enrolled.       *)
C23_OneRepresentation ==
    (/\ Answered(1, "upload_voice_sample")
     /\ procs[1].saved
     /\ procs[1].total >= min_samples)
        => /\ procs[1].feat.kind = "vec"
           /\ procs[1].success
           /\ procs[1].ret.enr
           /\ enrolled["u1"]
           /\ vp["u1"].st = "complete"

(* C24: a successful create_voiceprint leaves the staged samples in       *)
(* place.  It changes nothing but the voiceprint record: the directory,   *)
(* every staged sample and get_sample_count are after the call what they  *)
(* were before it; and a staged sample stops existing only by             *)
(* clear_user_voiceprint.                                                 *)
C24_CreateKeepsSamples ==
    [][/\ (procs'[1].kind = "create_voiceprint" /\ procs'[1].ret.ok)
              => /\ dir' = dir
                 /\ samples' = samples
                 /\ enrolled' = enrolled
                 /\ SampleCount(WorldAfter, "u1") = SampleCount(World, "u1")
       /\ (\E i \in Indices : /\ samples["u1"][i].st # "absent"
                              /\ samples'["u1"][i].st = "absent")
              => procs'[1].kind = "clear_user_voiceprint"]_vars

\* create_voiceprint has just succeeded over samples at every index, not
\* all alike, and they are all still there
C24_Witness ==
    /\ Answered(1, "create_voiceprint") /\ procs[1].ret.ok
    /\ vp["u1"].st = "complete"
    /\ \A i \in Indices : samples["u1"][i].st = "complete"
    /\ samples["u1"][1] # samples["u1"][MaxIndex]
    /\ SampleCount(World, "u1") = MaxIndex

(* C25: a voiceprint never outlives its samples.  Whenever no request is  *)
(* in flight, a user with a voiceprint record has get_sample_count at     *)
(* least min_samples, after every interleaving of uploads and             *)
(* re-enrolments.                                                         *)
C25_VoiceprintHasSamples ==
    (Quiet /\ vp["u1"].st # "absent")
        => SampleCount(World, "u1") >= min_samples

(* C26: concurrent uploads end aggregated.  When the upload requests of a *)
(* user, run concurrently at different sample numbers, have all been      *)
(* answered and get_sample_count is at least 3, a voiceprint record       *)
(* exists and aggregates every staged sample: its sample_count is         *)
(* get_sample_count and its raw samples are the staged ones.              *)
C26_UploadsAggregated ==
    (Quiet /\ SampleCount(World, "u1") >= 3)
        => /\ vp["u1"].st = "complete"
           /\ vp["u1"].data.sample_count = SampleCount(World, "u1")
           /\ vp["u1"].data.raw_samples
                  = [j \in 1..Len(Staged("u1")) |-> Staged("u1")[j].data]

(* C27: every stored voiceprint was built from at least min_samples       *)
(* samples.  In every reachable state a stored statistical voiceprint has *)
(* sample_count >= 3 and as many raw samples as its sample_count, and a   *)
(* stored voiceprint of the alignment form holds at least 3 matrices.     *)
C27_BuiltFromEnough ==
    \A u \in Users :
        vp[u].st = "complete"
            => /\ vp[u].data.form = "statistical"
                    => /\ vp[u].data.sample_count >= 3
                       /\ vp[u].data.sample_count = Len(vp[u].data.raw_samples)
               /\ vp[u].data.form = "matrices"
                    => Len(vp[u].data.raw_samples) >= 3

\* in the alignment design create_voiceprint has just stored a voiceprint
\* of exactly min_samples matrices, not all alike
C27_Witness ==
    /\ design = "alignment"
    /\ Answered(1, "create_voiceprint") /\ procs[1].ret.ok
    /\ vp["u1"].st = "complete"
    /\ vp["u1"].data.form = "matrices"
    /\ Len(vp["u1"].data.raw_samples) = min_samples
    /\ vp["u1"].data.raw_samples[1] # vp["u1"].data.raw_samples[2]

(* C28: authenticate_voice and get_sample_count only read.  In every      *)
(* state and for every probe, a call of either leaves the samples         *)
(* directory, every staged sample and the voiceprint record of every user *)
(* as they were, whatever it answers.                                     *)
C28_ReadOnly ==
    [][procs'[1].kind \in {"authenticate_voice", "get_sample_count"}
           => /\ dir' = dir
              /\ samples' = samples
              /\ vp' = vp
              /\ enrolled' = enrolled]_vars

\* get_sample_count has just been answered for a user with a sample at
\* every index and a voiceprint
C28_Witness ==
    /\ Answered(1, "get_sample_count")
    /\ procs[1].ret.val = MaxIndex
    /\ vp["u1"].st = "complete"

====
